---- MODULE Spec2Model ----
(***************************************************************************)
(* The Nelder-Mead simplex engine of seehuhn.de/go/minimize (simplex.go)   *)
(* and the evaluation cache that turns an objective into its predicate.    *)
(*                                                                         *)
(* Coordinates are float64 values on the grid of integer multiples of the  *)
(* smallest positive float64 (2^-1074); a coordinate is stored as that     *)
(* integer.  On this grid float64 addition, subtraction, negation and      *)
(* multiplication by 2 are exact, and multiplication by 0.5 and division   *)
(* by a small integer are rounded to nearest, ties to even (IEEE 754), so  *)
(* the arithmetic below is the arithmetic of the code, not an idealised    *)
(* one.  The sign of zero is not modelled (no operation of the code        *)
(* observes it).  A run whose trial point leaves -MaxAbs..MaxAbs is not    *)
(* followed further (pc = "offgrid").                                      *)
(***************************************************************************)
EXTENDS Integers, Sequences, FiniteSets, TLC

(* ------------------------------ bounds -------------------------------- *)
MaxN == 2
MaxStart == 1
MaxEps == 2
MaxAbs == 8
MaxAnyStep == 2
MaxQ == 4

(* ------------------------- program constants -------------------------- *)
MaxIter == 10000
ShrinkLimit == 10
\* math.NaN(), which is no number of the grid
NaN == 99999
\* float64 -0 in the wrapper's points
NegZero == 88888
\* the parameters of the method, in units of one half
Rho2 == 2
Chi2 == 4
Gamma2 == 1
Sigma2 == 1

VARIABLES
  fn,           \* Minimize: the predicate handed in (which Interface it is)
  N,            \* s.N, the dimension len(x)
  x,            \* the caller's start vector
  eps,          \* the caller's epsilon
  X,            \* s.X, the flat buffer of (n+4)*n coordinates
  pc,           \* where Minimize is
  step,         \* the loop counter of Minimize
  shrinkCount,  \* shrinkCount of Minimize
  src, i, j,    \* the parameters/locals of the running Insert
  si, sj,       \* the loop indices of the running insertion sort
  span,         \* the i and j the running Insert was called with
  move,         \* the branch the current iteration of Minimize took
  res,          \* the vector Minimize returns
  streak,       \* history: the number of iterations since the last one that did not shrink
  cache,        \* w.cache of the caching wrapper (empty until the first Get)
  wn,           \* w.n
  call,         \* the last call made on the wrapper and its arguments
  ret,          \* what that call returned
  evals,        \* how often that call invoked the objective w.f
  recent,       \* history: the points the objective was asked at and is remembered
                \* for, most recently asked first (points that compare == are one)
  again         \* history: the last Get evaluated the objective at a point of recent

engineVars == <<fn, N, x, eps, X, pc, step, shrinkCount, src, i, j, si, sj, span, move, res, streak>>
cacheVars == <<cache, wn, call, ret, evals, recent, again>>
vars == <<engineVars, cacheVars>>

(* ------------------------- float64 on the grid ------------------------ *)
Abs(v) == IF v < 0 THEN -v ELSE v

\* v / d rounded to nearest, ties to even (d > 0)
DivRNE(v, d) ==
  LET q == v \div d
      r == v % d
  IN  IF 2 * r < d THEN q
      ELSE IF 2 * r > d THEN q + 1
      ELSE IF q % 2 = 0 THEN q ELSE q + 1

\* the float64 product (l2/2) * v for l2/2 in {-1, 2, 0.5, 0.5, -1}
FMul(l2, v) == DivRNE(l2 * v, 2)

(* ------------------------------ the buffer ---------------------------- *)
\* A Go slice is a sequence; index k of the code is position k + 1 here.
Slots == 0 .. N + 3

\* B[lo:hi]
Slice(B, lo, hi) == SubSeq(B, lo + 1, hi)

\* copy(B[dlo:dhi], S): as many elements as the shorter of the two holds
CopyTo(B, dlo, dhi, S) ==
  LET m == IF dhi - dlo < Len(S) THEN dhi - dlo ELSE Len(S)
  IN  SubSeq(B, 1, dlo) \o SubSeq(S, 1, m) \o SubSeq(B, dlo + m + 1, Len(B))

\* s.Point(k): the view X[k*n : (k+1)*n]
Point(B, k) == Slice(B, k * N, (k + 1) * N)

(* ----------------------------- predicates ----------------------------- *)
RECURSIVE SumSq(_, _)
SumSq(p, c) == IF c = 0 THEN 0 ELSE p[c] * p[c] + SumSq(p, c - 1)
Quadratic(p) == SumSq(p, Len(p))

RECURSIVE SumTo(_, _)
SumTo(p, c) == IF c = 0 THEN 0 ELSE p[c] + SumTo(p, c - 1)
Linear(p) == SumTo(p, Len(p))

Zero(p) == 0

\* an objective with many local minima
Rugged(p) == (Quadratic(p) * 3) % 7

DetKinds == {"Quadratic", "Zero", "Linear", "Rugged", "NonStrict"}
Kinds == DetKinds \cup {"Any"}
\* the kinds whose Less is a strict weak ordering
OrderKinds == {"Quadratic", "Zero", "Linear", "Rugged"}

\* fn.Less(p, q): the set of answers the predicate can give
LessOut(p, q) ==
  CASE fn = "Quadratic" -> {Quadratic(p) < Quadratic(q)}
    [] fn = "Zero"      -> {Zero(p) < Zero(q)}
    [] fn = "Linear"    -> {Linear(p) < Linear(q)}
    [] fn = "Rugged"    -> {Rugged(p) < Rugged(q)}
    [] fn = "NonStrict" -> {Quadratic(p) <= Quadratic(q)}
    [] OTHER            -> BOOLEAN

\* s.Less(a, b)
Less(B, a, b) == LessOut(Point(B, a), Point(B, b))

(* --------------------------- state operations ------------------------- *)
\* mutant: the swap copies without the temporary
SwapNoTmp(B, a, b) ==
  LET B1 == CopyTo(B, a * N, (a + 1) * N, Point(B, b))
  IN  CopyTo(B1, b * N, (b + 1) * N, Point(B1, a))

\* s.Swap(a, b)
Swap(B, a, b) ==
  LET B1 == CopyTo(B, (N + 1) * N, (N + 2) * N, Point(B, a))
      B2 == CopyTo(B1, a * N, (a + 1) * N, Point(B1, b))
  IN  CopyTo(B2, b * N, (b + 1) * N, Point(B2, N + 1))

\* mutant: every vertex but the last has its first coordinate moved by eps
InitPointsFirst(B, start, e) ==
  [m \in 1 .. Len(B) |->
     LET k == (m - 1) \div N
         c == (m - 1) % N
     IN  IF k <= N
         THEN start[c + 1] + (IF k < N /\ c = 0 THEN e ELSE 0)
         ELSE B[m]]

\* the loop of s.Init: vertex k is x with coordinate k moved by eps, vertex n is x
InitPoints(B, start, e) ==
  [m \in 1 .. Len(B) |->
     LET k == (m - 1) \div N
         c == (m - 1) % N
     IN  IF k <= N
         THEN start[c + 1] + (IF k < N /\ c = k THEN e ELSE 0)
         ELSE B[m]]

RECURSIVE ColSum(_, _, _)
ColSum(B, c, k) == IF k = 0 THEN 0 ELSE Point(B, k - 1)[c] + ColSum(B, c, k - 1)

\* mutant: the worst vertex is averaged in as well
CentroidAll(B) ==
  CopyTo(B, (N + 1) * N, (N + 2) * N, [c \in 1 .. N |-> DivRNE(ColSum(B, c, N + 1), N + 1)])

\* s.Centroid(): the average of p_0 .. p_{n-1} into p_{n+1}
Centroid(B) ==
  CopyTo(B, (N + 1) * N, (N + 2) * N, [c \in 1 .. N |-> DivRNE(ColSum(B, c, N), N)])

\* s.Shift(a, b, c, l2/2): p_a = (1 - l)*p_b + l*p_c
Shift(B, a, b, c, l2) ==
  CopyTo(B, a * N, (a + 1) * N,
         [m \in 1 .. N |-> FMul(2 - l2, Point(B, b)[m]) + FMul(l2, Point(B, c)[m])])

\* mutant: the points move half way to the worst vertex p_n
ShrinkToWorst(B) ==
  [m \in 1 .. Len(B) |->
     LET k == (m - 1) \div N
         c == (m - 1) % N
     IN  IF k < N
         THEN FMul(2 - Sigma2, Point(B, N)[c + 1]) + FMul(Sigma2, B[m])
         ELSE B[m]]

\* s.Shrink(): every p_k, k = 1..n, moves half way to p_0
Shrink(B) ==
  [m \in 1 .. Len(B) |->
     LET k == (m - 1) \div N
         c == (m - 1) % N
     IN  IF k >= 1 /\ k <= N
         THEN FMul(2 - Sigma2, Point(B, 0)[c + 1]) + FMul(Sigma2, B[m])
         ELSE B[m]]

\* mutant: the new point is copied in without making room for it
InsertAtNoShift(B, s, p) == CopyTo(B, p * N, (p + 1) * N, Point(B, s))

\* mutant: the new point overwrites the worst vertex, whatever the index found
InsertAtWorst(B, s, p) == CopyTo(B, N * N, (N + 1) * N, Point(B, s))

\* the two copies that end s.Insert, at index p
InsertAt(B, s, p) ==
  LET B1 == CopyTo(B, (p + 1) * N, (N + 1) * N, Slice(B, p * N, N * N))
  IN  CopyTo(B1, p * N, (p + 1) * N, Point(B1, s))

\* mutant: the worst vertex is returned
ResultWorst(B) == Point(B, N)

\* res := make([]float64, n); copy(res, s.Point(0))
Result(B) == Point(B, 0)

Fits(B) == \A m \in 1 .. Len(B) : Abs(B[m]) <= MaxAbs

(* -------------------------------- Init -------------------------------- *)
Starts(n) == [1 .. n -> -MaxStart .. MaxStart]

\* &wrapper{f: f}: no cache yet, and no call made
NoCalls ==
  /\ cache = <<>> /\ wn = 0
  /\ call = <<>> /\ ret = 0 /\ evals = 0
  /\ recent = <<>> /\ again = FALSE

Init ==
  /\ fn \in Kinds
  /\ N \in 1 .. MaxN
  /\ x \in Starts(N)
  /\ eps \in 0 .. MaxEps
  \* the long and the branching runs start from one point for each dimension
  /\ fn \in {"NonStrict", "Any"} => x = [c \in 1 .. N |-> MaxStart] /\ eps = MaxEps
  /\ X = [m \in 1 .. (N + 4) * N |-> 0]
  /\ pc = "start"
  /\ step = 0
  /\ shrinkCount = 0
  /\ src = 0 /\ i = 0 /\ j = 0
  /\ si = 0 /\ sj = 0
  /\ res = <<>>
  /\ streak = 0
  /\ span = <<0, 0>> /\ move = "init"
  /\ NoCalls

(* ------------------------------- actions ------------------------------ *)
Panic ==
  /\ pc' = "panic"
  /\ UNCHANGED <<fn, N, x, eps, X, step, shrinkCount, src, i, j, si, sj, span, move, res, streak>>

\* s.Init(x, eps) up to the call of sort.Sort
StartInit ==
  /\ UNCHANGED cacheVars
  /\ pc = "start"
  /\ X' = InitPoints(X, x, eps)
  /\ pc' = "sortInit"
  /\ si' = 1 /\ sj' = 1
  /\ UNCHANGED <<fn, N, x, eps, step, shrinkCount, src, i, j, span, move, res, streak>>

\* one test of the inner loop of sort.Sort's insertion sort over 0..n
SortStep ==
  /\ UNCHANGED cacheVars
  /\ pc \in {"sortInit", "sortShrink"}
  /\ si <= N
  /\ \/ /\ sj > 0
        /\ TRUE \in Less(X, sj, sj - 1)
        /\ X' = Swap(X, sj, sj - 1)
        /\ sj' = sj - 1
        /\ si' = si
     \/ /\ IF sj > 0 THEN FALSE \in Less(X, sj, sj - 1) ELSE TRUE
        /\ X' = X
        /\ si' = si + 1
        /\ sj' = si + 1
  /\ UNCHANGED <<fn, N, x, eps, pc, step, shrinkCount, src, i, j, span, move, res, streak>>

\* sort.Sort of s.Init returns; the loop of Minimize starts
InitDone ==
  /\ UNCHANGED cacheVars
  /\ pc = "sortInit"
  /\ si > N
  /\ pc' = "loop"
  /\ step' = 0
  /\ shrinkCount' = 0
  /\ UNCHANGED <<fn, N, x, eps, X, src, i, j, si, sj, span, move, res, streak>>

\* the buffer after s.Centroid() and the reflection
Reflected == Shift(Centroid(X), N + 2, N + 1, N, -Rho2)
\* ... and, from there, after the expansion
Expanded(R) == Shift(R, N + 3, N + 1, N + 2, Chi2)
\* ... or after the outside and the inside contraction
Outside(R) == Shift(R, N + 2, N + 1, N + 2, Gamma2)
Inside(R) == Shift(R, N + 2, N + 1, N, Gamma2)

\* mutant: the loop has no iteration cap
IteratingNoCap ==
  /\ pc = "loop"
  /\ fn = "Any" => step < MaxAnyStep

\* the loop condition holds: the body runs once more
Iterating ==
  /\ pc = "loop"
  /\ step < MaxIter
  /\ fn = "Any" => step < MaxAnyStep

\* mutant: the search range of Insert is one index too wide
CallInsertWide(B, s, lo, hi) ==
  /\ X' = B
  /\ pc' = "insert"
  /\ src' = s /\ i' = lo /\ j' = hi + 1
  /\ span' = <<lo, hi + 1>>
  /\ UNCHANGED <<fn, N, x, eps, step, si, sj, res, streak>>

CallInsert(B, s, lo, hi) ==
  /\ X' = B
  /\ pc' = "insert"
  /\ src' = s /\ i' = lo /\ j' = hi
  /\ span' = <<lo, hi>>
  /\ UNCHANGED <<fn, N, x, eps, step, si, sj, res, streak>>

\* mutant: the reflected point is compared with the worst vertex
CanReflectAcceptWorst(R) ==
  /\ Fits(R)
  /\ FALSE \in Less(R, N + 2, 0)
  /\ TRUE \in Less(R, N + 2, N)

\* the reflected point ranks between the best and the second worst
CanReflectAccept(R) ==
  /\ Fits(R)
  /\ FALSE \in Less(R, N + 2, 0)
  /\ TRUE \in Less(R, N + 2, N - 1)

ReflectAccept ==
  /\ UNCHANGED cacheVars
  /\ Iterating
  /\ \E R \in {Reflected} :
       /\ CanReflectAccept(R)
       /\ CallInsert(R, N + 2, 1, N - 1)
  /\ move' = "reflect"
  /\ UNCHANGED shrinkCount

\* the reflected point is the new best; r is what the expanded point's test says
CanExpand(R, E, r) ==
  /\ Fits(R)
  /\ TRUE \in Less(R, N + 2, 0)
  /\ Fits(E)
  /\ r \in Less(E, N + 3, N + 2)

\* the reflected point is the new best and the expanded point beats it
ExpandAccept ==
  /\ UNCHANGED cacheVars
  /\ Iterating
  /\ \E R \in {Reflected} : \E E \in {Expanded(R)} :
       /\ CanExpand(R, E, TRUE)
       /\ CallInsert(E, N + 3, 0, 0)
  /\ move' = "expand"
  /\ shrinkCount' = 0

\* the reflected point is the new best and the expanded point does not beat it
ExpandReject ==
  /\ UNCHANGED cacheVars
  /\ Iterating
  /\ \E R \in {Reflected} : \E E \in {Expanded(R)} :
       /\ CanExpand(R, E, FALSE)
       /\ CallInsert(E, N + 2, 0, 0)
  /\ move' = "reflect0"
  /\ UNCHANGED shrinkCount

\* mutant: the contraction is tried whatever the reflected point's rank
ContractedAlways(R) ==
  {B \in {Outside(R), Inside(R)} :
     (B = Outside(R) /\ TRUE \in Less(R, N + 2, N))
       \/ (B = Inside(R) /\ FALSE \in Less(R, N + 2, N))}

\* the buffers the contraction can produce
Contracted(R) ==
  {B \in {Outside(R), Inside(R)} :
     /\ FALSE \in Less(R, N + 2, 0)
     /\ FALSE \in Less(R, N + 2, N - 1)
     /\ (B = Outside(R) /\ TRUE \in Less(R, N + 2, N))
          \/ (B = Inside(R) /\ FALSE \in Less(R, N + 2, N))}

\* the contraction is tried; r is what the contracted point's test says
CanContract(R, r) ==
  /\ Fits(R)
  /\ \E B \in Contracted(R) : r \in Less(B, N + 2, N)

\* the contracted point beats the worst
ContractAccept ==
  /\ UNCHANGED cacheVars
  /\ Iterating
  /\ \E R \in {Reflected} :
       /\ Fits(R)
       /\ \E B \in Contracted(R) :
            /\ TRUE \in Less(B, N + 2, N)
            /\ CallInsert(B, N + 2, 0, N)
  /\ move' = "contract"
  /\ UNCHANGED shrinkCount

\* nothing beat the worst: s.Shrink() and the call of sort.Sort
ShrinkAll ==
  /\ UNCHANGED cacheVars
  /\ Iterating
  /\ \E R \in {Reflected} :
       /\ Fits(R)
       /\ \E B \in Contracted(R) :
            /\ FALSE \in Less(B, N + 2, N)
            /\ X' = Shrink(B)
  /\ pc' = "sortShrink"
  /\ si' = 1 /\ sj' = 1
  /\ move' = "shrink"
  /\ UNCHANGED <<fn, N, x, eps, step, shrinkCount, src, i, j, span, res, streak>>

\* a trial point leaves the grid: the run is not followed further
CanOffGrid(R) ==
  IF Fits(R) THEN TRUE \in Less(R, N + 2, 0) /\ ~Fits(Expanded(R)) ELSE TRUE

OffGrid ==
  /\ UNCHANGED cacheVars
  /\ Iterating
  /\ \E R \in {Reflected} : CanOffGrid(R)
  /\ pc' = "offgrid"
  /\ UNCHANGED <<fn, N, x, eps, X, step, shrinkCount, src, i, j, si, sj, span, move, res, streak>>

\* mutant: the branches of the binary search are the wrong way round
InsertStepFlipped ==
  /\ UNCHANGED cacheVars
  /\ pc = "insert"
  /\ i < j
  /\ LET h == (i + j) \div 2
     IN  IF h \in Slots /\ src \in Slots
         THEN /\ \/ TRUE \in Less(X, src, h) /\ i' = h + 1 /\ j' = j
                 \/ FALSE \in Less(X, src, h) /\ j' = h /\ i' = i
              /\ UNCHANGED <<fn, N, x, eps, X, pc, step, shrinkCount, src, si, sj, span, move, res, streak>>
         ELSE Panic

\* one step of the binary search of s.Insert
InsertStep ==
  /\ UNCHANGED cacheVars
  /\ pc = "insert"
  /\ i < j
  /\ LET h == (i + j) \div 2
     IN  IF h \in Slots /\ src \in Slots
         THEN /\ \/ FALSE \in Less(X, src, h) /\ i' = h + 1 /\ j' = j
                 \/ TRUE \in Less(X, src, h) /\ j' = h /\ i' = i
              /\ UNCHANGED <<fn, N, x, eps, X, pc, step, shrinkCount, src, si, sj, span, move, res, streak>>
         ELSE Panic

\* the search is over: s.Insert copies, and Minimize continues its loop
InsertCopy ==
  /\ UNCHANGED cacheVars
  /\ pc = "insert"
  /\ i >= j
  /\ IF i >= 0 /\ i <= N /\ src \in Slots
     THEN /\ X' = InsertAt(X, src, i)
          /\ pc' = "loop"
          /\ step' = step + 1
          /\ streak' = 0
          /\ UNCHANGED <<fn, N, x, eps, shrinkCount, src, i, j, si, sj, span, move, res>>
     ELSE Panic

\* mutant: the shrinks are counted but the loop is never left for them
ShrinkDoneNoBreak ==
  /\ UNCHANGED cacheVars
  /\ pc = "sortShrink"
  /\ si > N
  /\ shrinkCount' = shrinkCount + 1
  /\ pc' = "loop"
  /\ step' = step + 1
  /\ streak' = streak + 1
  /\ UNCHANGED <<fn, N, x, eps, X, src, i, j, si, sj, span, move, res>>

\* sort.Sort after s.Shrink() returns: count the shrink, break or go on
ShrinkDone ==
  /\ UNCHANGED cacheVars
  /\ pc = "sortShrink"
  /\ si > N
  /\ shrinkCount' = shrinkCount + 1
  /\ IF shrinkCount + 1 > ShrinkLimit
     THEN /\ pc' = "done"
          /\ res' = Result(X)
          /\ step' = step
     ELSE /\ pc' = "loop"
          /\ res' = res
          /\ step' = step + 1
  /\ streak' = streak + 1
  /\ UNCHANGED <<fn, N, x, eps, X, src, i, j, si, sj, span, move>>

\* the loop condition step < 10000 fails: Minimize returns
LoopExit ==
  /\ UNCHANGED cacheVars
  /\ pc = "loop"
  /\ step >= MaxIter
  /\ pc' = "done"
  /\ res' = Result(X)
  /\ UNCHANGED <<fn, N, x, eps, X, step, shrinkCount, src, i, j, si, sj, span, move, streak>>


(* ------------------------- the caching wrapper ------------------------ *)
\* a float64 of the wrapper is NaN, -0 (NegZero) or a number; Num is its value
Num(a) == IF a = NegZero THEN 0 ELSE a

\* float64 == and < : false on NaN, and -0 equals 0
FEq(a, b) == a # NaN /\ b # NaN /\ Num(a) = Num(b)
FLt(a, b) == a # NaN /\ b # NaN /\ Num(a) < Num(b)

\* an objective that reads the sign bits: the sum of math.Copysign(1, q[c])
RECURSIVE SignSum(_, _)
SignSum(q, c) ==
  IF c = 0 THEN 0 ELSE (IF q[c] = NegZero THEN -1 ELSE 1) + SignSum(q, c - 1)

\* the objective w.f, a pure function of the point
ObjKinds == {"Quadratic", "Signed"}
Objective(q) ==
  IF fn = "Signed" THEN SignSum(q, Len(q))
  ELSE Quadratic([c \in 1 .. Len(q) |-> Num(q[c])])

\* mutant: the new cache is left as make returns it, all zero
FreshCacheZero(n) == [m \in 1 .. (n + 1) * (n + 4) |-> 0]

\* make([]float64, (n+1)*(n+4)) with every entry set to NaN
FreshCache(n) == [m \in 1 .. (n + 1) * (n + 4) |-> NaN]

\* the bases the search loop of Get visits: base += stride while base+n < len
Bases(C, n) == {b \in 0 .. Len(C) - 1 : b % (n + 1) = 0 /\ b + n < Len(C)}

\* the inner loop of the search: the entry at base holds the coordinates of q
Matches(C, n, b, q) == \A c \in 0 .. n - 1 : FEq(C[b + c + 1], q[c + 1])

\* mutant: the hit is copied to the front over the first entry
MoveToFrontOver(C, n, b) == CopyTo(C, 0, n + 1, Slice(C, b, b + n + 1))

\* a hit at base b: the entry goes to w.tmp, the entries before it move up by
\* one, w.tmp goes to the front (w.tmp is dead between calls: a local here)
MoveToFront(C, n, b) ==
  LET t == Slice(C, b, b + n + 1)
      C1 == CopyTo(C, n + 1, b + n + 1, Slice(C, 0, b))
  IN  CopyTo(C1, 0, n + 1, t)

\* a miss: everything moves up by one entry, q and its value go to the front
PushFront(C, n, q, v) ==
  LET C1 == CopyTo(C, n + 1, Len(C), C)
      C2 == CopyTo(C1, 0, n, q)
  IN  [C2 EXCEPT ![n + 1] = v]

\* w.Get(q) on the wrapper (C, n): the wrapper after it, the value, the evaluations
Get(C, n, q) ==
  LET n1 == IF Len(C) = 0 THEN Len(q) ELSE n
      C1 == IF Len(C) = 0 THEN FreshCache(n1) ELSE C
      hits == {b \in Bases(C1, n1) : Matches(C1, n1, b, q)}
  IN  IF hits # {}
      THEN LET b == CHOOSE b \in hits : \A b2 \in hits : b <= b2
               C2 == MoveToFront(C1, n1, b)
           IN  [cache |-> C2, wn |-> n1, ret |-> C2[n1 + 1], evals |-> 0]
      ELSE [cache |-> PushFront(C1, n1, q, Objective(q)), wn |-> n1,
            ret |-> Objective(q), evals |-> 1]

\* the number of entries w.cache has room for
Capacity(n) == n + 4

\* the points asked about, all of one dimension: in dimension 1 one point more
\* than the cache holds, and -0; in higher dimensions MaxQ + 2 points
QueryDims == {1, 2}
QueryPoints(n) ==
  IF n = 1 THEN [1 .. 1 -> {NegZero} \cup (0 .. Capacity(1))]
  ELSE {q \in [1 .. n -> 0 .. MaxQ] :
          \A c \in 2 .. n : q[c] \in {0, 1} /\ (q[c] = 1 => q[1] = 0)}
\* the dimensions in which calls of Less, and the objective Signed, are followed
LessDims == {1}

\* the same point as far as == can tell
SamePoint(p, q) == \A c \in 1 .. Len(q) : FEq(p[c], q[c])

\* history: q is asked about and the objective evaluated e times; the point the
\* value returned was computed at (q, or the point it compares equal to) is now
\* the most recently asked
Asked(h, q, e) ==
  LET at == {k \in 1 .. Len(h) : SamePoint(h[k], q)}
  IN  IF at = {} THEN <<q>> \o h
      ELSE LET k == CHOOSE k \in at : TRUE
           IN  <<IF e = 1 THEN q ELSE h[k]>> \o SubSeq(h, 1, k - 1) \o SubSeq(h, k + 1, Len(h))

CacheInit ==
  /\ fn \in ObjKinds
  /\ N \in QueryDims
  /\ fn = "Signed" => N \in LessDims
  /\ x = [c \in 1 .. N |-> 0]
  /\ eps = 0
  /\ X = [m \in 1 .. (N + 4) * N |-> 0]
  /\ pc = "start"
  /\ step = 0
  /\ shrinkCount = 0
  /\ src = 0 /\ i = 0 /\ j = 0
  /\ si = 0 /\ sj = 0
  /\ res = <<>>
  /\ streak = 0
  /\ span = <<0, 0>> /\ move = "init"
  /\ NoCalls

\* w.Less(p, q) has made its first Get and not yet its second
InLess == Len(call) = 2 /\ call[1] = "Less"

\* what a Get of q leaves in the wrapper and in the history
Gets(q, g) ==
  /\ cache' = g.cache
  /\ wn' = g.wn
  /\ recent' = Asked(recent, q, g.evals)
  /\ again' = (g.evals = 1 /\ \E k \in 1 .. Len(recent) : SamePoint(recent[k], q))

\* a call of w.Get(q)
GetCall ==
  /\ UNCHANGED engineVars
  /\ ~InLess
  /\ \E q \in QueryPoints(N) :
       \E g \in {Get(cache, wn, q)} :
           /\ Gets(q, g)
           /\ call' = <<"Get", q>>
           /\ ret' = g.ret
           /\ evals' = g.evals

\* a call of w.Less(p, q), up to the return of w.Get(p)
LessFirst ==
  /\ UNCHANGED engineVars
  /\ ~InLess
  /\ N \in LessDims
  /\ \E p \in QueryPoints(N) :
       \E g \in {Get(cache, wn, p)} :
           /\ Gets(p, g)
           /\ call' = <<"Less", p>>
           /\ ret' = g.ret
           /\ evals' = g.evals

\* ... and from there to its return: w.Get(p) < w.Get(q)
LessSecond ==
  /\ UNCHANGED engineVars
  /\ InLess
  /\ \E q \in QueryPoints(N) :
       \E g \in {Get(cache, wn, q)} :
           /\ Gets(q, g)
           /\ call' = <<"Less", call[2], q>>
           /\ ret' = FLt(ret, g.ret)
           /\ evals' = evals + g.evals

CacheNext ==
  \/ GetCall
  \/ LessFirst
  \/ LessSecond

CacheSpec == CacheInit /\ [][CacheNext]_vars

(* --------------------------- Swap on its own -------------------------- *)
\* the buffers Swap is called on: every cell different from every other
SwapBuffers(n) == {[m \in 1 .. (n + 4) * n |-> m + e] : e \in 0 .. MaxEps}

SwapInit ==
  /\ fn = "Zero"
  /\ N \in 1 .. MaxN
  /\ x = [c \in 1 .. N |-> 0]
  /\ eps = 0
  /\ X \in SwapBuffers(N)
  /\ pc = "start"
  /\ step = 0
  /\ shrinkCount = 0
  /\ src = 0 /\ i = 0 /\ j = 0
  /\ si = 0 /\ sj = 0
  /\ res = <<>>
  /\ streak = 0
  /\ span = <<0, 0>> /\ move = "init"
  /\ NoCalls

\* a call s.Swap(a, b) with vertex indices a, b, kept in si and sj
SwapCall ==
  /\ UNCHANGED cacheVars
  /\ pc \in {"start", "swapped"}
  /\ \E a \in 0 .. N, b \in 0 .. N :
       /\ X' = Swap(X, a, b)
       /\ si' = a /\ sj' = b
  /\ pc' = "swapped"
  /\ UNCHANGED <<fn, N, x, eps, step, shrinkCount, src, i, j, span, move, res, streak>>

SwapNext ==
  \/ SwapCall

SwapSpec == SwapInit /\ [][SwapNext]_vars

Next ==
  \/ StartInit
  \/ SortStep
  \/ InitDone
  \/ ReflectAccept
  \/ ExpandAccept
  \/ ExpandReject
  \/ ContractAccept
  \/ ShrinkAll
  \/ OffGrid
  \/ InsertStep
  \/ InsertCopy
  \/ ShrinkDone
  \/ LoopExit

Spec == Init /\ [][Next]_vars

(* ======================= the claims about Minimize ==================== *)
\* vertices 0..n are sorted: no later vertex ranks before an earlier one
SortedVertices(B) ==
  \A a \in 0 .. N, b \in 0 .. N : a < b => ~(TRUE \in Less(B, b, a))

\* C1: for a deterministic strict weak ordering, vertices 0..n are sorted
\* ascending at the start and at the end of every iteration of Minimize's
\* loop, whatever move the iteration made, and when Minimize returns.
C1_SortedAtLoop ==
  (fn \in OrderKinds /\ pc \in {"loop", "done"}) => SortedVertices(X)

\* an iteration ended with a contraction inserted in the middle of three
\* distinct-ranking vertices
C1_Witness ==
  /\ fn = "Quadratic" /\ pc = "loop" /\ N = 2 /\ step >= 1
  /\ move = "contract" /\ i = 1
  /\ TRUE \in Less(X, 0, 1) /\ TRUE \in Less(X, 1, 2)

\* how far the call of Minimize has come: the iteration, then the place in it
SortProgress == si * (N + 2) + (si - sj)
Rank ==
  CASE pc = "start"      -> 0
    [] pc = "sortInit"   -> 1 + SortProgress
    [] pc = "loop"       -> 100 * (step + 1)
    [] pc = "insert"     -> 100 * (step + 1) + 1 + (N + 1 - (j - i))
    [] pc = "sortShrink" -> 100 * (step + 1) + 1 + SortProgress
    [] OTHER             -> 100 * (MaxIter + 2)

\* the model follows the run further from here
Followed ==
  /\ pc \notin {"done", "offgrid"}
  /\ ~(fn = "Any" /\ pc = "loop" /\ step >= MaxAnyStep)

\* some action of Next can be taken (the guards of the actions)
CanStep ==
  \/ pc \in {"start", "sortInit", "sortShrink", "insert"}
  \/ pc = "loop" /\ step >= MaxIter
  \/ /\ Iterating
     /\ \E R \in {Reflected} : \E E \in {Expanded(R)} :
          \/ CanReflectAccept(R)
          \/ CanExpand(R, E, TRUE) \/ CanExpand(R, E, FALSE)
          \/ CanContract(R, TRUE) \/ CanContract(R, FALSE)
          \/ CanOffGrid(R)

C2_State ==
  /\ step <= MaxIter
  /\ pc # "panic"
  /\ pc = "done" => /\ Len(res) = N
                    /\ step = MaxIter \/ shrinkCount > ShrinkLimit
  /\ Followed => CanStep

\* C2: Minimize terminates and returns a point for every predicate: every
\* step takes the call strictly further (Rank grows and is bounded by the
\* 10000 iterations), no state short of the return is stuck or a failure, the
\* loop never runs past 10000 iterations and is left earlier only when the
\* shrink counter exceeds its limit.
C2_Terminates == [](C2_State) /\ [][Rank' > Rank]_vars

\* Minimize returned because the iteration cap was reached
C2_Witness == pc = "done" /\ step = MaxIter /\ shrinkCount <= ShrinkLimit

(* --------------------------- C6: the result --------------------------- *)
\* what Minimize has returned is vertex 0 of the buffer it stopped with, in the
\* dimension of the start vector
C6_Returned == pc = "done" => (Len(res) = N /\ Len(x) = N /\ res = Point(X, 0))

C7_State ==
  fn = "Zero" =>
    /\ pc \notin {"offgrid", "panic"}
    /\ move \in {"init", "shrink"}
    /\ step <= ShrinkLimit
    /\ shrinkCount <= ShrinkLimit + 1
    /\ pc = "done" => (Len(res) = N /\ shrinkCount = ShrinkLimit + 1)
    /\ pc # "done" => CanStep

\* C7: for the constant objective Minimize terminates within the caps and returns
\* a point, from every start and in every dimension: every step brings the run
\* nearer to its end, which the stagnation cap sets after eleven shrinks.
C7_ZeroTerminates == [](C7_State) /\ [][fn = "Zero" => Rank' > Rank]_vars

\* the constant objective's run has ended, on the stagnation cap
C7_Witness ==
  /\ fn = "Zero"
  /\ pc = "done"
  /\ N = 2
  /\ move = "shrink"
  /\ step = ShrinkLimit

(* ------------------------ C9: what Insert does ------------------------ *)
\* the indices from lo to hi at which the point in slot s ranks before the vertex
Before(B, s, lo, hi) == {p \in lo .. hi : TRUE \in Less(B, s, p)}

\* the copying step of Insert(src, span[1], span[2]), called on sorted vertices
C9_Copy ==
  (pc = "insert" /\ pc' = "loop" /\ SortedVertices(X) /\ src \in N + 1 .. N + 3) =>
    LET T == Before(X, src, span[1], span[2])
    IN  /\ T # {}
        /\ \A p \in T : i <= p
        /\ i \in T
        /\ \A k \in 0 .. i - 1 : Point(X', k) = Point(X, k)
        /\ \A k \in i .. N - 1 : Point(X', k + 1) = Point(X, k)
        /\ Point(X', i) = Point(X, src)
        /\ \A k \in N + 1 .. N + 3 : Point(X', k) = Point(X, k)
        /\ Len(X') = Len(X)

\* C9: Insert(src, i, j) on sorted vertices places src at the smallest index p of
\* [i, j] with Less(src, vertex p): vertices 0..p-1 stay, the old vertices p..n-1
\* move to p+1..n in their order, vertex p becomes src, the old worst vertex is
\* gone, and the scratch slots n+1..n+3 stay.
C9_Insert == [][C9_Copy]_vars

\* an Insert over the whole simplex has put its point into the middle
C9_Witness ==
  /\ fn \in OrderKinds
  /\ pc = "loop"
  /\ N = 2
  /\ span = <<0, 2>>
  /\ i = 1
  /\ src = N + 2
  /\ Point(X, 1) = Point(X, src)
  /\ Point(X, 0) # Point(X, 1) /\ Point(X, 1) # Point(X, 2)

(* ----------------------- C10: the binary search ----------------------- *)
\* src does not rank before vertex i-1 and ranks before vertex j
Bracket ==
  /\ i <= j
  /\ i >= 1 => ~(TRUE \in Less(X, src, i - 1))
  /\ ~(FALSE \in Less(X, src, j))

\* a step of the search picks h with i <= h < j and narrows [i, j] by it; the
\* search is left with i = j
C10_Step ==
  (fn \in OrderKinds /\ pc = "insert") =>
    /\ pc' = "insert" =>
         LET h == (i + j) \div 2
         IN  /\ i <= h /\ h < j
             /\ (i' = h + 1 /\ j' = j) \/ (i' = i /\ j' = h)
             /\ j' - i' < j - i
    /\ pc' # "insert" => (i = j /\ pc' = "loop")

\* C10: for a strict weak ordering, at every call of Insert by Minimize and at every
\* step of its binary search, Less(src, vertex i-1) is false when i >= 1 and
\* Less(src, vertex j) is true; each step picks h with i <= h < j and strictly
\* narrows [i, j], and the search ends with i = j.
C10_Search ==
  /\ []((fn \in OrderKinds /\ pc = "insert") => Bracket)
  /\ [][C10_Step]_vars

\* a search over the whole simplex has ended in the middle, after two steps
C10_Witness ==
  /\ fn = "Quadratic"
  /\ pc = "insert"
  /\ N = 2
  /\ span = <<0, 2>>
  /\ i = 1 /\ j = 1

(* ---------------------------- C3: hit and miss ------------------------ *)
\* the Get a step has made: its point, its evaluations of the objective
AskedPoint == call'[Len(call')]
AskedEvals == IF Len(call') = 3 THEN evals' - evals ELSE evals'

\* the places of the history whose point compares equal to q, among lo .. hi
PlacesOf(q, lo, hi) == {k \in lo .. hi : k <= Len(recent) /\ SamePoint(recent[k], q)}

\* C3: a Get (on its own, or the first of a Less) of a point that equals, coordinate
\* by coordinate, one of the Capacity(N) most recently asked points returns the
\* value of the objective at that held point and does not invoke the objective; a Get
\* of any other point, so also the first Get on a fresh wrapper, invokes it exactly
\* once and returns the fresh value.
C3_Get ==
  Len(call') = 2 =>
    LET held == PlacesOf(AskedPoint, 1, Capacity(N))
    IN  IF held # {}
        THEN evals' = 0 /\ \A k \in held : ret' = Objective(recent[k])
        ELSE evals' = 1 /\ ret' = Objective(AskedPoint)
C3_HitOrMiss == [][C3_Get]_vars

\* a hit, through -0 == 0, after more points were asked than the cache holds
C3_Witness ==
  /\ call = <<"Get", <<NegZero>>>>
  /\ evals = 0
  /\ Len(recent) > Capacity(N)
  /\ recent[1] = <<0>>

(* ------------------------ C4: cached and uncached --------------------- *)
\* C4: whatever calls came before, the caching wrapper's Less(p, q) returns
\* f(p) < f(q), what the uncached wrapper returns, for every pure objective f.
C4_LessAgrees ==
  Len(call) = 3 => ret = FLt(Objective(call[2]), Objective(call[3]))

(* ------------------------------ C5: the LRU --------------------------- *)
\* entry e (from 1) of the cache
Entry(e) == Slice(cache, (e - 1) * (N + 1), e * (N + 1))

\* the cache holds the Capacity(N) most recently asked points, most recent first,
\* each with the value of the objective, and invalid entries behind them
C5_List ==
  /\ cache = <<>> => recent = <<>>
  /\ cache # <<>> =>
       /\ Len(cache) = (N + 1) * Capacity(N)
       /\ \A e \in 1 .. Capacity(N) :
            IF e <= Len(recent)
            THEN Entry(e) = recent[e] \o <<Objective(recent[e])>>
            ELSE \A m \in 1 .. N + 1 : Entry(e)[m] = NaN
  /\ \A k, l \in 1 .. Len(recent) : k # l => ~SamePoint(recent[k], recent[l])

\* a point asked before is evaluated again exactly when it has been dropped
C5_Get ==
  (AskedEvals = 1 /\ PlacesOf(AskedPoint, 1, Len(recent)) # {})
    <=> PlacesOf(AskedPoint, Capacity(N) + 1, Len(recent)) # {}

\* C5: the valid entries of the cache are the (up to) n+4 most recently asked
\* distinct points, most recently used first, each with the objective's value; a
\* hit moves its entry to the front and keeps the order of the others, a miss on a
\* full list drops the last entry, and a later Get of a dropped point evaluates the
\* objective again.
C5_LRU == [](C5_List) /\ [][C5_Get]_vars

\* a point that was dropped from the full list has been asked again and evaluated
C5_Witness ==
  /\ again
  /\ Len(call) = 2 /\ call[1] = "Get"
  /\ evals = 1
  /\ Len(recent) > Capacity(N)

(* ------------------------- C11: when it shrinks ----------------------- *)
\* the step that shrinks: Shrink() has run and the sort is about to
Shrinks == pc = "loop" /\ pc' = "sortShrink"

\* the contracted point of the iteration, which Shrink() leaves in slot n+2
ContractedPoint == Point(X', N + 2)

\* C11 as stated: an iteration shrinks only if neither the reflected nor the
\* contracted point (no expanded point is tried in such an iteration) ranked
\* better than the worst vertex n.
C11_NoneBeatWorst ==
  [][(fn \in DetKinds /\ Shrinks) =>
       /\ ~(TRUE \in Less(Reflected, N + 2, N))
       /\ ~(TRUE \in LessOut(ContractedPoint, Point(X, N)))]_vars

\* C11 amended: for a deterministic predicate an iteration shrinks only if the
\* contracted point did not rank better than the worst vertex n and the reflected
\* point ranked better than neither the best vertex 0 nor the second-worst vertex
\* n-1; the reflected point may rank better than the worst. The shrink moves
\* every vertex but vertex 0 and leaves the shrink counter to the end of the sort.
C11_ShrinkOnlyIf ==
  [][(fn \in DetKinds /\ Shrinks) =>
       /\ ~(TRUE \in LessOut(ContractedPoint, Point(X, N)))
       /\ ~(TRUE \in Less(Reflected, N + 2, 0))
       /\ ~(TRUE \in Less(Reflected, N + 2, N - 1))
       /\ Point(X', 0) = Point(X, 0)
       /\ shrinkCount' = shrinkCount]_vars

\* a shrink is under way, after some earlier iteration, for the rugged objective
C11_Witness ==
  /\ fn = "Rugged"
  /\ pc = "sortShrink"
  /\ move = "shrink"
  /\ si = 1 /\ sj = 1
  /\ N = 2
  /\ step >= 1

(* ------------------- C12: the counter after a new best ---------------- *)
\* the step of an iteration whose reflected point ranked better than vertex 0:
\* it ends in the call Insert(n+3, 0, 0) or Insert(n+2, 0, 0)
NewBest == pc = "loop" /\ pc' = "insert" /\ move' \in {"expand", "reflect0"}

\* C12: whenever the reflected point ranks better than the best vertex, the
\* shrink counter is reset to zero in that iteration, whether the expanded or
\* the reflected point is inserted at position 0.
C12_CounterReset == [][NewBest => shrinkCount' = 0]_vars

(* ------------------------ C13: the stagnation exit -------------------- *)
\* C13: when Minimize leaves its loop before the iteration cap, the shrink
\* counter exceeded 10 and the last 11 iterations were all shrink iterations.
C13_ConsecutiveShrinks ==
  (pc = "done" /\ step < MaxIter) =>
     (shrinkCount > ShrinkLimit /\ streak >= ShrinkLimit + 1)

(* ------------------------ C14: the direct insert ---------------------- *)
\* the first step of an iteration: the trial points are made and a move is chosen
Chooses == pc = "loop" /\ pc' \in {"insert", "sortShrink"}

\* C14 as stated: the reflected point is inserted directly exactly when it ranks
\* strictly between the best vertex 0 and the second-worst vertex n-1.
C14_StrictlyBetween ==
  [][(fn \in OrderKinds /\ Chooses) =>
       (move' = "reflect" <=>
          (TRUE \in Less(Reflected, 0, N + 2) /\ TRUE \in Less(Reflected, N + 2, N - 1)))]_vars

\* the direct insert is chosen exactly when the reflected point does not rank
\* better than vertex 0 and ranks better than vertex n-1; only the reflection
\* is computed, and Insert(n+2, 1, n-1) is called
C14_Choice ==
  (fn \in DetKinds /\ Chooses) =>
    /\ move' = "reflect" <=>
         (~(TRUE \in Less(Reflected, N + 2, 0)) /\ TRUE \in Less(Reflected, N + 2, N - 1))
    /\ move' = "reflect" =>
         /\ X' = Reflected
         /\ src' = N + 2 /\ span' = <<1, N - 1>>
         /\ shrinkCount' = shrinkCount

\* and the insert puts it at an index of 1..n-1, over the old worst vertex
C14_Landing ==
  (fn \in DetKinds /\ pc = "insert" /\ pc' = "loop" /\ move = "reflect") =>
    /\ i \in 1 .. N - 1
    /\ Point(X', 0) = Point(X, 0)
    /\ Point(X', i) = Point(X, N + 2)
    /\ \A k \in i .. N - 1 : Point(X', k + 1) = Point(X, k)
    /\ shrinkCount' = shrinkCount

\* C14 amended: for a deterministic predicate the reflected point A is inserted
\* directly, with no expansion, contraction or shrink, exactly when A does not
\* rank better than the best vertex 0 (it may tie with it) and ranks better than
\* the second-worst vertex n-1; A then lands at an index in 1..n-1, vertex 0 is
\* unchanged, the old worst vertex is discarded, the shrink counter is unchanged.
C14_DirectInsert == [][C14_Choice /\ C14_Landing]_vars

\* a reflected point that ties with the best vertex has been inserted directly
C14_Witness ==
  /\ fn \in OrderKinds
  /\ pc = "loop"
  /\ move = "reflect"
  /\ N = 2
  /\ i = 1
  /\ Point(X, 1) = Point(X, N + 2)
  /\ ~(TRUE \in Less(X, 0, 1))
  /\ Point(X, 0) # Point(X, 1)

(* -------------------------- C15: after Init --------------------------- *)
\* x0 with coordinate k (from 1) increased by eps
Perturbed(k) == [c \in 1 .. N |-> IF c = k THEN x[c] + eps ELSE x[c]]

\* the vertices Init is to make: one per coordinate, and x0 itself
Expected == [k \in 1 .. N + 1 |-> IF k <= N THEN Perturbed(k) ELSE x]

\* the vertices 0..n of the buffer
Vertices(B) == [k \in 1 .. N + 1 |-> Point(B, k - 1)]

\* s and t hold the same elements, each as often
SameBag(s, t) ==
  /\ Len(s) = Len(t)
  /\ \A k \in 1 .. Len(s) :
       Cardinality({l \in 1 .. Len(s) : s[l] = s[k]})
         = Cardinality({l \in 1 .. Len(t) : t[l] = s[k]})

\* Init has returned and no iteration has begun
AfterInit == pc = "loop" /\ step = 0 /\ move = "init"

\* C15: after Init(x0, eps) the n+1 vertices are, as a multiset, x0 and, for each
\* coordinate, x0 with only that coordinate increased by eps; they are sorted
\* ascending by the predicate (a strict weak ordering), and the trial slots n+2
\* and n+3 are as allocated.
C15_AfterInit ==
  AfterInit =>
    /\ SameBag(Vertices(X), Expected)
    /\ fn \in OrderKinds => SortedVertices(X)
    /\ \A k \in N + 2 .. N + 3 : \A c \in 1 .. N : Point(X, k)[c] = 0

\* Init has made three different vertices and the sort has moved x0 to the front
C15_Witness ==
  /\ AfterInit
  /\ fn = "Quadratic"
  /\ N = 2
  /\ eps > 0
  /\ Point(X, 0) = x
  /\ Point(X, 1) # Point(X, 2)
  /\ Point(X, 1) # x /\ Point(X, 2) # x

(* ------------------------------ C16: Swap ----------------------------- *)
\* C16: Swap(a, b) for vertex indices a, b in 0..n, a = b included, exchanges the
\* coordinates of vertices a and b and leaves every other vertex unchanged; the
\* only other slot it writes is slot n+1, which receives the old vertex a, and
\* the slots n+2 and n+3 are unchanged.
C16_Exchanges ==
  pc' = "swapped" =>
    /\ Len(X') = Len(X)
    /\ Point(X', si') = Point(X, sj')
    /\ Point(X', sj') = Point(X, si')
    /\ \A k \in (0 .. N) \ {si', sj'} : Point(X', k) = Point(X, k)
    /\ Point(X', N + 1) = Point(X, si')
    /\ \A k \in N + 2 .. N + 3 : Point(X', k) = Point(X, k)
C16_Swap == [][C16_Exchanges]_vars

\* the best and the worst of three vertices have changed places, and a later
\* Swap(1, 1) has left them there
C16_Witness ==
  /\ pc = "swapped"
  /\ N = 2
  /\ si = 1 /\ sj = 1
  /\ Point(X, 0)[1] > Point(X, 2)[1]
  /\ Point(X, N + 1) = Point(X, 1)

(* --------------------------- C17: dimension 1 ------------------------- *)
\* the trial points of the iteration have just been made
Trying == pc = "insert" \/ (pc = "sortShrink" /\ si = 1 /\ sj = 1)

\* C17: in dimension 1 the centroid slot equals vertex 0 in every iteration, the
\* direct insert Insert(n+2, 1, n-1) is never chosen by a deterministic
\* predicate, every Insert works on indices 0 and 1 only and from a trial slot,
\* no access leaves the buffer, and the two vertices are sorted (by a strict
\* weak ordering) at the end of every iteration.
C17_DimensionOne ==
  N = 1 =>
    /\ pc # "panic"
    /\ Len(X) = (N + 4) * N
    /\ fn \in DetKinds => move # "reflect"
    /\ Trying => Point(X, N + 1) = Point(X, 0)
    /\ pc = "insert" => (i \in 0 .. 1 /\ j \in 0 .. 1 /\ src \in N + 2 .. N + 3)
    /\ (pc = "loop" /\ step >= 1 /\ move # "shrink") => i \in 0 .. 1
    /\ (fn \in OrderKinds /\ pc \in {"loop", "done"}) => SortedVertices(X)

\* in dimension 1 a contracted point has replaced the worst vertex
C17_Witness ==
  /\ N = 1
  /\ fn \in OrderKinds
  /\ pc = "loop"
  /\ step >= 1
  /\ move = "contract"
  /\ i = 1
  /\ Point(X, 1) = Point(X, N + 2)
  /\ TRUE \in Less(X, 0, 1)

(* ---------------------- C18: the best vertex stays -------------------- *)
\* Init has sorted: the loop, a sort after a shrink, or the return
Sorted0 == pc \in {"loop", "insert", "sortShrink", "done"}

\* no step of an iteration makes vertex 0 worse
C18_Step ==
  (fn \in OrderKinds /\ Sorted0) => ~(TRUE \in LessOut(Point(X, 0), Point(X', 0)))

\* the start point ranks before neither vertex 0 nor the result
C18_Start ==
  (fn \in OrderKinds /\ Sorted0) =>
    /\ ~(TRUE \in LessOut(x, Point(X, 0)))
    /\ pc = "done" => ~(TRUE \in LessOut(x, res))

\* C18: for a deterministic strict weak ordering the best vertex never gets worse:
\* Less(vertex 0 before, vertex 0 after) is false for every step of every
\* iteration, so for every iteration; and Less(x0, result) is false.
C18_BestNeverWorse == [](C18_Start) /\ [][C18_Step]_vars

\* Minimize has returned a point that ranks before its start point
C18_Witness ==
  /\ fn \in OrderKinds
  /\ pc = "done"
  /\ N = 2
  /\ TRUE \in LessOut(res, x)

(* ------------------------ C19: inside the buffer ---------------------- *)
\* the slot indices in use are slots of the buffer, Insert's are vertex indices
C19_Indices ==
  /\ pc # "panic"
  /\ Len(X) = (N + 4) * N
  /\ pc = "insert" =>
       /\ src \in N + 2 .. N + 3
       /\ i \in 0 .. N /\ j \in 0 .. N
       /\ i < j => (i + j) \div 2 \in 0 .. N
  /\ pc \in {"sortInit", "sortShrink"} =>
       /\ si \in 1 .. N + 1
       /\ si <= N => sj \in 0 .. N

\* the slots n+1 .. n+3 that a step has written
Written == {k \in N + 1 .. N + 3 : Point(X', k) # Point(X, k)}

\* Insert's copy writes vertices only; the slots n+1..n+3 are written by the
\* first step of an iteration (Centroid, Shift) and, slot n+1 only, by a Swap
C19_Writes ==
  /\ (pc = "insert" /\ pc' = "loop") => (i \in 0 .. N /\ Written = {})
  /\ Written # {} =>
       \/ pc = "loop"
       \/ pc \in {"sortInit", "sortShrink"} /\ Written = {N + 1} /\ sj' = sj - 1

\* C19: for every dimension and every predicate all accesses stay inside the
\* (n+4)*n buffer: slot indices are in 0..n+3, Insert's final index is in 0..n,
\* Insert's shift writes vertex slots only, and the slots n+1, n+2, n+3 are
\* written only by Centroid, Swap and Shift.
C19_InBounds == [](C19_Indices) /\ [][C19_Writes]_vars

\* Insert(n+2, 1, n-1) has been called in dimension 1, with the range 1..0
C19_Witness ==
  /\ fn = "Any"
  /\ N = 1
  /\ pc = "insert"
  /\ src = N + 2
  /\ i = 1 /\ j = 0

====
